---- MODULE Spec2Model ----
(***************************************************************************)
(* Model of app.py: the Flask handler process_notes (POST                  *)
(* /api/process_notes), its nested helper save_failed_prompt, and the      *)
(* static fallback serve_react.                                            *)
(*                                                                         *)
(* Texts (request bodies, provider output, error messages, prompts, file   *)
(* contents) are TLA+ strings, taken apart with Len, Head, Tail, SubSeq    *)
(* and \o, so that lower(), strip(), the "in" substring test and           *)
(* json.loads are computed character by character.                         *)
(***************************************************************************)
EXTENDS Integers, Sequences, FiniteSets

\* Bounds of the model.
MaxClock == 1      \* UTC seconds 0..MaxClock pass while requests are handled
MaxRequests == 2   \* requests received in a run

(***************************************************************************)
(* String helpers: str.lower(), the "in" test, str.strip().                *)
(***************************************************************************)
UpperCase == "ABCDEFGHIJKLMNOPQRSTUVWXYZ"
LowerCase == "abcdefghijklmnopqrstuvwxyz"

CharAt(s, i) == SubSeq(s, i, i)

\* The lower-case letter of each upper-case letter.
LowerOf ==
  [c \in {CharAt(UpperCase, i) : i \in 1..Len(UpperCase)} |->
     CharAt(LowerCase, CHOOSE i \in 1..Len(UpperCase) : CharAt(UpperCase, i) = c)]

\* str.lower() on one character.
LowerChar(c) == IF c \in DOMAIN LowerOf THEN LowerOf[c] ELSE c

RECURSIVE lower(_)
lower(s) == IF s = "" THEN "" ELSE LowerChar(Head(s)) \o lower(Tail(s))

\* Python's  sub in s .
Contains(s, sub) ==
  \E i \in 1..(Len(s) - Len(sub) + 1) : SubSeq(s, i, i + Len(sub) - 1) = sub

IsSpace(c) == c \in {" ", "\t", "\n", "\r"}

RECURSIVE lstrip(_)
lstrip(s) == IF s # "" /\ IsSpace(Head(s)) THEN lstrip(Tail(s)) ELSE s

RECURSIVE rstrip(_)
rstrip(s) ==
  IF s # "" /\ IsSpace(CharAt(s, Len(s)))
  THEN rstrip(SubSeq(s, 1, Len(s) - 1))
  ELSE s

strip(s) == rstrip(lstrip(s))

(***************************************************************************)
(* JSON values.  Every value is a record of the same shape:                *)
(*   t = "str"  : s is the string                                          *)
(*   t = "num"  : s is the integer literal                                 *)
(*   t = "lit"  : s is "true", "false" or "null"                           *)
(*   t = "arr"  : items is the sequence of elements                        *)
(*   t = "obj"  : items is the sequence of members, each a "pair"          *)
(*   t = "pair" : s is the key, items = <<value>>                          *)
(***************************************************************************)
JStr(s) == [t |-> "str", s |-> s, items |-> <<>>]
JNum(s) == [t |-> "num", s |-> s, items |-> <<>>]
JLit(s) == [t |-> "lit", s |-> s, items |-> <<>>]
JArr(items) == [t |-> "arr", s |-> "", items |-> items]
JObj(items) == [t |-> "obj", s |-> "", items |-> items]
JPair(k, v) == [t |-> "pair", s |-> k, items |-> <<v>>]
None == JLit("null")

HasKey(members, k) == \E i \in 1..Len(members) : members[i].s = k

\* dict[k] = v : a repeated key keeps its place and takes the later value.
PutMember(members, k, v) ==
  IF HasKey(members, k)
  THEN [i \in 1..Len(members) |->
          IF members[i].s = k THEN JPair(k, v) ELSE members[i]]
  ELSE Append(members, JPair(k, v))

\* dict.get(k, default)
Get(obj, k, default) ==
  IF HasKey(obj.items, k)
  THEN (obj.items[CHOOSE i \in 1..Len(obj.items) : obj.items[i].s = k]).items[1]
  ELSE default

(***************************************************************************)
(* json.loads: a recursive-descent reading of the JSON grammar (objects,   *)
(* arrays, strings, numbers, true/false/null, and the NaN and Infinity     *)
(* that Python also reads).  Of the string escapes the one-character ones  *)
(* are read; the texts drawn below hold no \b, \f or \u escape.            *)
(* A result is [ok, val, rest]: whether a value was read, the value, and   *)
(* the text after it.                                                      *)
(***************************************************************************)
ParseFail == [ok |-> FALSE, val |-> None, rest |-> ""]
ParseOk(v, rest) == [ok |-> TRUE, val |-> v, rest |-> rest]

StartsWith(s, p) == Len(s) >= Len(p) /\ SubSeq(s, 1, Len(p)) = p
Drop(s, n) == SubSeq(s, n + 1, Len(s))

IsDigit(c) == c \in {"0", "1", "2", "3", "4", "5", "6", "7", "8", "9"}

\* The character an escape \c stands for ("" when \c is no simple escape).
Unescape(c) ==
  CASE c = "n" -> "\n"
    [] c = "t" -> "\t"
    [] c = "r" -> "\r"
    [] c = "\"" -> "\""
    [] c = "\\" -> "\\"
    [] c = "/" -> "/"
    [] OTHER -> ""

\* The text after an opening quote, up to the closing quote.  A raw control
\* character inside a string is an error (strict mode).
RECURSIVE ScanString(_, _)
ScanString(s, acc) ==
  IF s = "" THEN ParseFail
  ELSE LET c == Head(s) IN
    IF c = "\"" THEN ParseOk(JStr(acc), Tail(s))
    ELSE IF c \in {"\n", "\t", "\r"} THEN ParseFail
    ELSE IF c = "\\"
      THEN IF Len(s) >= 2 /\ Unescape(CharAt(s, 2)) # ""
           THEN ScanString(Drop(s, 2), acc \o Unescape(CharAt(s, 2)))
           ELSE ParseFail
    ELSE ScanString(Tail(s), acc \o c)

\* The longest prefix of s made of digits.
RECURSIVE Digits(_)
Digits(s) == IF s # "" /\ IsDigit(Head(s)) THEN Head(s) \o Digits(Tail(s)) ELSE ""

\* -?(0|[1-9][0-9]*)(\.[0-9]+)?([eE][-+]?[0-9]+)?
ScanNumber(s) ==
  LET sign == IF StartsWith(s, "-") THEN "-" ELSE ""
      s1   == Drop(s, Len(sign))
      int  == IF StartsWith(s1, "0") THEN "0" ELSE Digits(s1)
      s2   == Drop(s1, Len(int))
      frac == IF StartsWith(s2, ".") /\ Digits(Tail(s2)) # ""
              THEN "." \o Digits(Tail(s2)) ELSE ""
      s3   == Drop(s2, Len(frac))
      esgn == IF Len(s3) >= 2 /\ CharAt(s3, 2) \in {"-", "+"} THEN CharAt(s3, 2) ELSE ""
      exp  == IF s3 # "" /\ Head(s3) \in {"e", "E"}
                 /\ Digits(Drop(s3, 1 + Len(esgn))) # ""
              THEN Head(s3) \o esgn \o Digits(Drop(s3, 1 + Len(esgn))) ELSE ""
      lit  == sign \o int \o frac \o exp
  IN IF int = "" THEN ParseFail ELSE ParseOk(JNum(lit), Drop(s, Len(lit)))

RECURSIVE ParseValue(_), ParseElems(_, _), ParseMembers(_, _)
\* One value at the start of s (no leading whitespace).
ParseValue(s) ==
  IF s = "" THEN ParseFail
  ELSE LET c == Head(s) IN
    CASE c = "\"" -> ScanString(Tail(s), "")
      [] c = "{" ->
           LET r == lstrip(Tail(s))
           IN IF StartsWith(r, "}") THEN ParseOk(JObj(<<>>), Tail(r))
              ELSE ParseMembers(r, <<>>)
      [] c = "[" ->
           LET r == lstrip(Tail(s))
           IN IF StartsWith(r, "]") THEN ParseOk(JArr(<<>>), Tail(r))
              ELSE ParseElems(r, <<>>)
      [] StartsWith(s, "null") -> ParseOk(JLit("null"), Drop(s, 4))
      [] StartsWith(s, "true") -> ParseOk(JLit("true"), Drop(s, 4))
      [] StartsWith(s, "false") -> ParseOk(JLit("false"), Drop(s, 5))
      [] StartsWith(s, "NaN") -> ParseOk(JNum("NaN"), Drop(s, 3))
      [] StartsWith(s, "Infinity") -> ParseOk(JNum("Infinity"), Drop(s, 8))
      [] StartsWith(s, "-Infinity") -> ParseOk(JNum("-Infinity"), Drop(s, 9))
      [] OTHER -> ScanNumber(s)

\* The elements of an array, s at the start of an element.
ParseElems(s, acc) ==
  LET v == ParseValue(s)
      r == lstrip(v.rest)
  IN IF ~v.ok \/ r = "" THEN ParseFail
     ELSE IF Head(r) = "," THEN ParseElems(lstrip(Tail(r)), Append(acc, v.val))
     ELSE IF Head(r) = "]" THEN ParseOk(JArr(Append(acc, v.val)), Tail(r))
     ELSE ParseFail

\* The members of an object, s at the start of a key.
ParseMembers(s, acc) ==
  IF ~StartsWith(s, "\"") THEN ParseFail
  ELSE
    LET k  == ScanString(Tail(s), "")
        r  == lstrip(k.rest)
        v  == ParseValue(lstrip(Tail(r)))
        r2 == lstrip(v.rest)
    IN IF ~k.ok \/ ~StartsWith(r, ":") THEN ParseFail
       ELSE IF ~v.ok \/ r2 = "" THEN ParseFail
       ELSE IF Head(r2) = ","
         THEN ParseMembers(lstrip(Tail(r2)), PutMember(acc, k.val.s, v.val))
       ELSE IF Head(r2) = "}"
         THEN ParseOk(JObj(PutMember(acc, k.val.s, v.val)), Tail(r2))
       ELSE ParseFail

\* json.loads(s): one value, whitespace allowed around it, nothing after it.
loads(s) ==
  LET v == ParseValue(lstrip(s))
  IN IF v.ok /\ lstrip(v.rest) = "" THEN ParseOk(v.val, "") ELSE ParseFail

(***************************************************************************)
(* Values as Python sees them: truthiness (the  or {}  of line 31) and     *)
(* str() (the f-string of lines 36-69).                                    *)
(***************************************************************************)
RECURSIVE NoNonZeroDigit(_)
NoNonZeroDigit(s) ==
  \/ s = ""
  \/ Head(s) \in {"e", "E"}
  \/ /\ Head(s) \in {"0", "-", "."}
     /\ NoNonZeroDigit(Tail(s))

\* bool(v): None, False, 0, "", [] and {} are false.
Truthy(v) ==
  CASE v.t = "lit" -> v.s = "true"
    [] v.t = "num" -> v.s \in {"NaN", "Infinity", "-Infinity"} \/ ~NoNonZeroDigit(v.s)
    [] v.t = "str" -> v.s # ""
    [] OTHER -> v.items # <<>>

RECURSIVE repr(_), ReprItems(_)
\* repr(v), the text str() gives for what is inside a list or a dict.  An
\* integer is its literal (the bodies drawn below hold no other number).
repr(v) ==
  CASE v.t = "str" -> "'" \o v.s \o "'"
    [] v.t = "num" -> (CASE v.s = "NaN" -> "nan"
                         [] v.s = "Infinity" -> "inf"
                         [] v.s = "-Infinity" -> "-inf"
                         [] OTHER -> v.s)
    [] v.t = "lit" -> (IF v.s = "null" THEN "None"
                       ELSE IF v.s = "true" THEN "True" ELSE "False")
    [] v.t = "arr" -> "[" \o ReprItems(v.items) \o "]"
    [] v.t = "obj" -> "{" \o ReprItems(v.items) \o "}"
    [] OTHER -> "'" \o v.s \o "': " \o repr(v.items[1])

ReprItems(items) ==
  IF items = <<>> THEN ""
  ELSE IF Len(items) = 1 THEN repr(items[1])
  ELSE repr(items[1]) \o ", " \o ReprItems(Tail(items))

\* str(v): a string is itself, anything else its repr.
str(v) == IF v.t = "str" THEN v.s ELSE repr(v)

(***************************************************************************)
(* process_notes, lines 31-69: the fields and the prompt.                  *)
(***************************************************************************)
\* request.get_json() of a well-formed JSON body.
get_json(body) == loads(body).val

\* data = request.get_json() or {}
Data(body) ==
  LET json == get_json(body)
  IN IF Truthy(json) THEN json ELSE JObj(<<>>)

\* data.get(...) exists only on a dict.
HasGet(data) == data.t = "obj"

Topic(data) == Get(data, "topic", JStr(""))
Notes(data) == Get(data, "notes", JStr(""))
\* Variant: tone defaults to the empty string like the other fields.
Tone_NoDefault(data) == Get(data, "tone", JStr(""))

Tone(data) == Get(data, "tone", JStr("General"))

\* The fixed text of lines 37-63 (the instructions and the JSON schema).
PromptHead ==
  "\n    You are a note-taking assistant. [rules 1-9 and the JSON schema]\n\n"

\* The f-string of lines 36-69.
Prompt(topic, tone, notes) ==
  PromptHead \o "    Topic: " \o str(topic)
             \o "\n    Tone: " \o str(tone)
             \o "\n    Scribbled Notes:\n    " \o str(notes) \o "\n    "

BuildPrompt(data) == Prompt(Topic(data), Tone(data), Notes(data))

(***************************************************************************)
(* process_notes, lines 81-94: the response to a provider result.          *)
(***************************************************************************)
Response(status, body) == [status |-> status, body |-> body]
NoResponse == Response(0, None)

\* jsonify(value): a JSON response carrying the value.
jsonify(v) == Response(200, v)

\* Variant: the text is not stripped.
Fallback_Untrimmed(text) ==
  JObj(<< JPair("expandedNotes", JStr(text)),
          JPair("important", JArr(<<>>)),
          JPair("explain", JArr(<<>>)),
          JPair("tasks", JArr(<<>>)),
          JPair("meeting", JArr(<<>>)) >>)

\* The fallback of lines 86-92.
Fallback(text) ==
  JObj(<< JPair("expandedNotes", JStr(strip(text))),
          JPair("important", JArr(<<>>)),
          JPair("explain", JArr(<<>>)),
          JPair("tasks", JArr(<<>>)),
          JPair("meeting", JArr(<<>>)) >>)

\* Variant: a parsed value that is no object with expandedNotes is taken
\* for unparsable.
Parsed_Validated(text) ==
  LET parsed == loads(text)
  IN IF parsed.ok /\ parsed.val.t = "obj" /\ HasKey(parsed.val.items, "expandedNotes")
     THEN parsed.val
     ELSE Fallback(text)

\* Lines 82-92: json.loads(response.text), or the fallback when it raises.
Parsed(text) ==
  LET parsed == loads(text)
  IN IF parsed.ok THEN parsed.val ELSE Fallback(text)

\* str(e) of the AttributeError that  response.text.strip()  raises in the
\* fallback when response.text is None (json.loads(None) raised first).
NoneStripError == "'NoneType' object has no attribute 'strip'"

(***************************************************************************)
(* process_notes, lines 96-119: the classification of an error.            *)
(***************************************************************************)
\* Variant: the markers are looked for in the message as it is.
IsTransient_CaseSensitive(err_text) ==
  \/ Contains(err_text, "503")
  \/ Contains(err_text, "unavailable")
  \/ Contains(err_text, "model is overloaded")

\* Variant: shorter markers.
IsTransient_Loose(err_text) ==
  LET lowered == lower(err_text)
  IN \/ Contains(err_text, "503")
     \/ Contains(lowered, "unavailable")
     \/ Contains(lowered, "overloaded")

\* Line 112.
IsTransient(err_text) ==
  LET lowered == lower(err_text)
  IN \/ Contains(err_text, "503")
     \/ Contains(lowered, "unavailable")
     \/ Contains(lowered, "model is overloaded")

UnavailableMessage == "The AI model is not available. Please try again later."

ErrorBody(msg) == JObj(<< JPair("error", JStr(msg)) >>)

\* Line 119.
GenericError(err_text) == Response(500, ErrorBody(err_text))

\* Variant: an error of save_failed_prompt is answered like a generic one.
Unavailable_Propagates(save_e) ==
  IF save_e = ""
  THEN Response(503, ErrorBody(UnavailableMessage))
  ELSE GenericError(save_e)

\* Lines 113-117: whatever save_failed_prompt did (save_e is "" when it
\* wrote the file, else the error it caught), the answer is the 503.
Unavailable(save_e) == Response(503, ErrorBody(UnavailableMessage))

\* What Flask answers when the view function itself raises (line 32 on a
\* body that is no dict): the error is outside the try of line 71.
Html(s) == [t |-> "html", s |-> s, items |-> <<>>]
Unhandled == Response(500, Html("Internal Server Error"))

(***************************************************************************)
(* save_failed_prompt, lines 99-108: the file.                             *)
(***************************************************************************)
Digit(n) == CharAt("0123456789", n + 1)

\* datetime.utcnow().strftime("%Y%m%dT%H%M%SZ") at second t of the run.
strftime(t) ==
  "20250101T0000" \o Digit((t \div 10) % 10) \o Digit(t % 10) \o "Z"

\* Variant: the name stops at the minute.
Filename_Minute(t) == "failed_prompt_" \o SubSeq(strftime(t), 1, 13) \o "Z.txt"

\* Line 102.
Filename(t) == "failed_prompt_" \o strftime(t) \o ".txt"

\* Variant: the directory is emptied before the file is created.
OpenW_Fresh(dir, name) == [n \in {name} |-> ""]

\* open(path, "w"): the file is created, or truncated when it exists.
OpenW(dir, name) ==
  [n \in DOMAIN dir \cup {name} |-> IF n = name THEN "" ELSE dir[n]]

\* f.write(text) and the close of the with block: the text goes to the
\* start of the file, over what another writer may have put there since
\* this writer's open.
WriteAt0(dir, name, text) ==
  [dir EXCEPT ![name] = text \o Drop(dir[name], Len(text))]

(***************************************************************************)
(* serve_react, lines 123-132.  The static folder is a map from the        *)
(* relative paths of its entries to "file" or "dir" ("absent" otherwise).  *)
(***************************************************************************)
Entries == {"index.html", "favicon.ico", "manifest.json", "static", "static/app.js"}

\* os.path.exists(os.path.join(build_dir, path))
Exists(folder, path) == path \in Entries /\ folder[path] # "absent"

File(path) == [t |-> "file", s |-> path, items |-> <<>>]

\* send_from_directory(build_dir, path): the file, or 404 when the path
\* names no regular file.
send_from_directory(folder, path) ==
  IF path \in Entries /\ folder[path] = "file"
  THEN Response(200, File(path))
  ELSE Response(404, Html("Not Found"))

StatusPayload ==
  JObj(<< JPair("status", JStr("Backend running. Frontend build not found.")) >>)

serve_react(folder, path) ==
  IF path # "" /\ Exists(folder, path)
  THEN send_from_directory(folder, path)
  ELSE IF Exists(folder, "index.html")
  THEN send_from_directory(folder, "index.html")
  ELSE jsonify(StatusPayload)

(***************************************************************************)
(* The inputs.                                                             *)
(***************************************************************************)
\* The worker threads of the server, each handling one request at a time.
Threads == {"t1", "t2"}

\* Request bodies (JSON texts).
Bodies ==
  { "{\"topic\":\"Sorting\",\"notes\":\"qsort ??\",\"tone\":\"Class Lecture\"}",
    "{\"notes\":\"mtg 3pm **\"}",
    "{}",
    "null",
    "{\"topic\":null,\"tone\":\"\",\"notes\":7}",
    "{\"tone\":\"Travel Plan\",\"extra\":[1]}",
    "[1]",
    "\"notes\"",
    "[]" }

\* Texts the provider returns.
Texts ==
  { "{\"expandedNotes\":\"- a\\n- b\",\"important\":[],\"explain\":[],\"tasks\":[\"t\"],\"meeting\":[]}",
    " {\"a\":1,\"a\":2}\n",
    "[1, 2]",
    "null",
    "NaN",
    "Sure, here are your notes expanded.",
    " \n Sure. {\"a\":1}\t",
    "{\"a\":1} trailing",
    "{\"expandedNotes\":\"x\",}",
    "" }

\* Messages of the errors the provider call raises.
Errors ==
  { "503 Service Unavailable",
    "error code 503",
    "UNAVAILABLE",
    "The Model Is Overloaded. Try later.",
    "invalid api key",
    "HTTP 500 internal",
    "model overloaded",
    "unavailabl e 50 3" }

Result(kind, s) == [kind |-> kind, s |-> s]
NoResult == Result("", "")

\* What the provider call can do: return text, return a response without
\* text (response.text is None), or raise.
Outcomes ==
  {Result("text", t) : t \in Texts} \cup {Result("none", "")}
    \cup {Result("raise", e) : e \in Errors}

\* The inputs of the runs with two threads.
FewBodies ==
  { "{\"notes\":\"mtg 3pm **\"}", "{}", "[1]" }
FewOutcomes ==
  { Result("text", "[1, 2]"),
    Result("text", "Sure, here are your notes expanded."),
    Result("raise", "invalid api key"),
    Result("raise", "The Model Is Overloaded. Try later."),
    Result("raise", "UNAVAILABLE"),
    Result("raise", "error code 503") }

Paths == {"", "index.html", "favicon.ico", "static", "static/app.js", "about"}

\* The static folders: "static" is a directory when it exists, the other
\* entries are files, and static/app.js exists only inside static.
Folders ==
  { f \in [Entries -> {"absent", "file", "dir"}] :
      /\ f["static"] # "file"
      /\ \A e \in Entries \ {"static"} : f[e] # "dir"
      /\ f["static/app.js"] # "absent" => f["static"] = "dir" }

NoFolder == [e \in Entries |-> "absent"]

(***************************************************************************)
(* The state.                                                              *)
(***************************************************************************)
VARIABLES
  pc,              \* per thread: where its request is
  body,            \* per thread: the body of its request
  prompt,          \* per thread: the prompt built for its request
  result,          \* per thread: what the provider call did
  utcnow,          \* per thread: the second save_failed_prompt read, or -1
  save_e,          \* per thread: the error save_failed_prompt caught, or ""
  resp,            \* per thread: the response of its request
  calls,           \* per thread: provider calls made for its request
  writes,          \* per thread: files its request opened for writing
  started,         \* requests received so far
  failed_prompts,  \* FAILED_PROMPTS_DIR: file name -> content
  opens,           \* second -> how many requests opened its file for writing
  clock,           \* the UTC second
  build,           \* app.static_folder
  get              \* the last GET: its path and its response

vars == << pc, body, prompt, result, utcnow, save_e, resp, calls, writes,
           started, failed_prompts, opens, clock, build, get >>

reqvars == << pc, body, prompt, result, utcnow, save_e, resp, calls, writes, started >>

NoGet == [path |-> "", resp |-> NoResponse]

InitNotes ==
  /\ pc = [r \in Threads |-> "idle"]
  /\ body = [r \in Threads |-> ""]
  /\ prompt = [r \in Threads |-> ""]
  /\ result = [r \in Threads |-> NoResult]
  /\ utcnow = [r \in Threads |-> -1]
  /\ save_e = [r \in Threads |-> ""]
  /\ resp = [r \in Threads |-> NoResponse]
  /\ calls = [r \in Threads |-> 0]
  /\ writes = [r \in Threads |-> 0]
  /\ started = 0
  /\ failed_prompts = <<>>
  /\ opens = <<>>
  /\ clock = 0
  /\ get = NoGet

\* A checkout without a frontend build.
Init == InitNotes /\ build = NoFolder

\* Any static folder.
InitStatic == InitNotes /\ build \in Folders

(***************************************************************************)
(* process_notes.                                                          *)
(***************************************************************************)
\* str(e) of the exception the try block of lines 71-94 ends with.
ErrText(out) == IF out.kind = "none" THEN NoneStripError ELSE out.s

\* Lines 31-69: the request arrives, the fields are read and the prompt is
\* built.  On a body that is no dict line 32 raises and Flask answers.
Receive(r, b) ==
  /\ pc[r] = "idle"
  /\ started < MaxRequests
  /\ started' = started + 1
  /\ body' = [body EXCEPT ![r] = b]
  /\ LET data == Data(b)
     IN IF HasGet(data)
        THEN /\ prompt' = [prompt EXCEPT ![r] = BuildPrompt(data)]
             /\ pc' = [pc EXCEPT ![r] = "call"]
             /\ resp' = resp
        ELSE /\ prompt' = prompt
             /\ pc' = [pc EXCEPT ![r] = "done"]
             /\ resp' = [resp EXCEPT ![r] = Unhandled]
  /\ UNCHANGED << result, utcnow, save_e, calls, writes,
                  failed_prompts, opens, clock, build, get >>

\* Lines 71-119 up to the call of save_failed_prompt: the provider call
\* ends with `out`; a text is parsed and answered; an error is classified,
\* and a transient one reads the current second (line 101).
Call(r, out) ==
  /\ pc[r] = "call"
  /\ calls' = [calls EXCEPT ![r] = @ + 1]
  /\ result' = [result EXCEPT ![r] = out]
  /\ IF out.kind = "text"
     THEN /\ resp' = [resp EXCEPT ![r] = jsonify(Parsed(out.s))]
          /\ pc' = [pc EXCEPT ![r] = "done"]
          /\ utcnow' = utcnow
     ELSE IF IsTransient(ErrText(out))
     THEN /\ utcnow' = [utcnow EXCEPT ![r] = clock]
          /\ pc' = [pc EXCEPT ![r] = "open"]
          /\ resp' = resp
     ELSE /\ resp' = [resp EXCEPT ![r] = GenericError(ErrText(out))]
          /\ pc' = [pc EXCEPT ![r] = "done"]
          /\ utcnow' = utcnow
  /\ UNCHANGED << body, prompt, save_e, writes, started,
                  failed_prompts, opens, clock, build, get >>

\* Lines 102-103: the path of the file of thread r.
Path(r) == Filename(utcnow[r])

\* Line 104: open(path, "w").  When it raises, lines 107-108 catch it.
SaveOpen(r, ok) ==
  /\ pc[r] = "open"
  /\ IF ok
     THEN /\ failed_prompts' = OpenW(failed_prompts, Path(r))
          /\ opens' = [t \in DOMAIN opens \cup {utcnow[r]} |->
                         IF t = utcnow[r]
                         THEN (IF t \in DOMAIN opens THEN opens[t] + 1 ELSE 1)
                         ELSE opens[t]]
          /\ writes' = [writes EXCEPT ![r] = @ + 1]
          /\ pc' = [pc EXCEPT ![r] = "write"]
          /\ save_e' = save_e
     ELSE /\ save_e' = [save_e EXCEPT ![r] = "open failed"]
          /\ pc' = [pc EXCEPT ![r] = "respond"]
          /\ UNCHANGED << failed_prompts, opens, writes >>
  /\ UNCHANGED << body, prompt, result, utcnow, resp, calls, started,
                  clock, build, get >>

\* Line 105 and the end of the with block: the prompt is written.  When
\* that raises, lines 107-108 catch it and the file stays as it is.
SaveWrite(r, ok) ==
  /\ pc[r] = "write"
  /\ IF ok
     THEN /\ failed_prompts' = WriteAt0(failed_prompts, Path(r), prompt[r])
          /\ save_e' = save_e
     ELSE /\ save_e' = [save_e EXCEPT ![r] = "write failed"]
          /\ failed_prompts' = failed_prompts
  /\ pc' = [pc EXCEPT ![r] = "respond"]
  /\ UNCHANGED << body, prompt, result, utcnow, resp, calls, writes, started,
                  opens, clock, build, get >>

\* Line 117.
Respond(r) ==
  /\ pc[r] = "respond"
  /\ resp' = [resp EXCEPT ![r] = Unavailable(save_e[r])]
  /\ pc' = [pc EXCEPT ![r] = "done"]
  /\ UNCHANGED << body, prompt, result, utcnow, save_e, calls, writes, started,
                  failed_prompts, opens, clock, build, get >>

\* The response is sent; the thread is free for its next request.
Finish(r) ==
  /\ pc[r] = "done"
  /\ pc' = [pc EXCEPT ![r] = "idle"]
  /\ body' = [body EXCEPT ![r] = ""]
  /\ prompt' = [prompt EXCEPT ![r] = ""]
  /\ result' = [result EXCEPT ![r] = NoResult]
  /\ utcnow' = [utcnow EXCEPT ![r] = -1]
  /\ save_e' = [save_e EXCEPT ![r] = ""]
  /\ resp' = [resp EXCEPT ![r] = NoResponse]
  /\ calls' = [calls EXCEPT ![r] = 0]
  /\ writes' = [writes EXCEPT ![r] = 0]
  /\ UNCHANGED << started, failed_prompts, opens, clock, build, get >>

\* A second passes.
Tick ==
  /\ clock < MaxClock
  /\ clock' = clock + 1
  /\ UNCHANGED << reqvars, failed_prompts, opens, build, get >>

\* A GET outside the API route.
ServeReact(path) ==
  /\ get' = [path |-> path, resp |-> serve_react(build, path)]
  /\ get' # get
  /\ UNCHANGED << reqvars, failed_prompts, opens, clock, build >>

(***************************************************************************)
(* The specifications.                                                     *)
(***************************************************************************)
\* Two threads, requests interleaved.
Next ==
  \/ \E r \in Threads, b \in FewBodies : Receive(r, b)
  \/ \E r \in Threads, out \in FewOutcomes : Call(r, out)
  \/ \E r \in Threads, ok \in BOOLEAN : SaveOpen(r, ok)
  \/ \E r \in Threads, ok \in BOOLEAN : SaveWrite(r, ok)
  \/ \E r \in Threads : Respond(r)
  \/ \E r \in Threads : Finish(r)
  \/ Tick
  \/ ServeReact("about")

Spec == Init /\ [][Next]_vars

\* One thread, requests one after the other, every body and every outcome.
NextSeq ==
  \/ \E b \in Bodies : Receive("t1", b)
  \/ \E out \in Outcomes : Call("t1", out)
  \/ \E ok \in BOOLEAN : SaveOpen("t1", ok)
  \/ \E ok \in BOOLEAN : SaveWrite("t1", ok)
  \/ Respond("t1")
  \/ Finish("t1")
  \/ Tick

SpecSeq == Init /\ [][NextSeq]_vars

\* The static fallback over every static folder.
NextStatic == \E p \in Paths : ServeReact(p)

SpecStatic == InitStatic /\ [][NextStatic]_vars

(***************************************************************************)
(* The claims.                                                             *)
(***************************************************************************)
Done(r) == pc[r] = "done"
Raised(r) == Done(r) /\ result[r].kind = "raise"

\* The markers of a transient error, as the specification words them.
Marked(msg) ==
  \/ Contains(msg, "503")
  \/ Contains(lower(msg), "unavailable")
  \/ Contains(lower(msg), "model is overloaded")

Answer503 ==
  [status |-> 503,
   body |-> JObj(<< JPair("error",
                          JStr("The AI model is not available. Please try again later.")) >>)]

\* The request of thread r ended on the transient path and its file was
\* opened and written without an error.
Saved(r) == Raised(r) /\ Marked(result[r].s) /\ writes[r] = 1 /\ save_e[r] = ""

\* No other request opened the file of second t.
Alone(t) == t \in DOMAIN opens /\ opens[t] = 1

IsFailedPromptName(n) ==
  /\ StartsWith(n, "failed_prompt_")
  /\ Len(n) > 18
  /\ SubSeq(n, Len(n) - 3, Len(n)) = ".txt"

\* C1 as stated: whenever the provider call raises an error with one of
\* the markers, the response is the fixed 503 and a failed_prompt_*.txt
\* file holds exactly the prompt of the request.
C1_AsStated ==
  \A r \in Threads :
    (Raised(r) /\ Marked(result[r].s)) =>
      /\ resp[r] = Answer503
      /\ \E n \in DOMAIN failed_prompts :
           IsFailedPromptName(n) /\ failed_prompts[n] = prompt[r]

\* C1 amended: whenever the provider call raises an error with one of the
\* markers, the response is the fixed 503; and when the file was opened and
\* written without an error and no other request opened a file of the same
\* second, the file failed_prompt_<that second>.txt holds exactly the
\* prompt of the request.
C1_Transient503 ==
  \A r \in Threads :
    (Raised(r) /\ Marked(result[r].s)) =>
      /\ resp[r] = Answer503
      /\ (save_e[r] = "" /\ Alone(utcnow[r])) =>
           \E n \in DOMAIN failed_prompts :
             /\ IsFailedPromptName(n)
             /\ n = "failed_prompt_" \o strftime(utcnow[r]) \o ".txt"
             /\ failed_prompts[n] = prompt[r]

C1_Witness ==
  \E r \in Threads :
    /\ Saved(r) /\ Alone(utcnow[r])
    /\ Contains(lower(result[r].s), "model is overloaded")
    /\ ~Contains(result[r].s, "model is overloaded")
    /\ resp[r].status = 503

\* C2: whenever the provider call raises an error with none of the markers,
\* the response is 500 with the error's message as the "error" field, and
\* the request opens no file of the failed-prompts directory.
C2_Generic500 ==
  \A r \in Threads :
    (Raised(r) /\ ~Marked(result[r].s)) =>
      /\ resp[r] = [status |-> 500,
                    body |-> JObj(<< JPair("error", JStr(result[r].s)) >>)]
      /\ writes[r] = 0
      /\ utcnow[r] = -1

C2_Witness ==
  \E r \in Threads :
    /\ Raised(r) /\ ~Marked(result[r].s)
    /\ Contains(result[r].s, "overloaded")
    /\ resp[r].status = 500

\* The body of the raw-text fallback for a text.
RawTextBody(text) ==
  JObj(<< JPair("expandedNotes", JStr(strip(text))),
          JPair("important", JArr(<<>>)),
          JPair("explain", JArr(<<>>)),
          JPair("tasks", JArr(<<>>)),
          JPair("meeting", JArr(<<>>)) >>)

\* C3: whenever the provider returns text that does not parse as JSON, the
\* response is 200 with the trimmed text as expandedNotes and the four
\* lists empty.
C3_RawTextFallback ==
  \A r \in Threads :
    (Done(r) /\ result[r].kind = "text" /\ ~loads(result[r].s).ok) =>
      resp[r] = [status |-> 200, body |-> RawTextBody(result[r].s)]

C3_Witness ==
  \E r \in Threads :
    /\ Done(r) /\ result[r].kind = "text" /\ ~loads(result[r].s).ok
    /\ strip(result[r].s) # result[r].s
    /\ resp[r].status = 200

\* C4: whenever the provider returns text that parses as JSON, the response
\* is 200 and its body is the parsed value, whatever its keys.
C4_JsonVerbatim ==
  \A r \in Threads :
    (Done(r) /\ result[r].kind = "text" /\ loads(result[r].s).ok) =>
      resp[r] = [status |-> 200, body |-> loads(result[r].s).val]

C4_Witness ==
  \E r \in Threads :
    /\ Done(r) /\ result[r].kind = "text" /\ loads(result[r].s).ok
    /\ ~HasKey(loads(result[r].s).val.items, "expandedNotes")
    /\ resp[r].status = 200

\* C5: on the transient path, an error raised while opening or writing the
\* file is swallowed: the response is still the fixed 503.
C5_SaveErrorSwallowed ==
  \A r \in Threads :
    (Done(r) /\ save_e[r] # "") => resp[r] = Answer503

C5_Witness ==
  \E r \in Threads :
    /\ Done(r) /\ save_e[r] = "write failed"
    /\ resp[r].status = 503

\* C6 as stated: every request makes exactly one provider call before it
\* responds.
C6_AsStated ==
  \A r \in Threads : Done(r) => calls[r] = 1

\* C7 as stated: two requests that end on the transient path with a
\* successful write leave two files, each with the prompt of its request.
C7_AsStated ==
  \A r1, r2 \in Threads :
    (r1 # r2 /\ Saved(r1) /\ Saved(r2)) =>
      \E n1, n2 \in DOMAIN failed_prompts :
        /\ n1 # n2
        /\ failed_prompts[n1] = prompt[r1]
        /\ failed_prompts[n2] = prompt[r2]

\* C7 amended: the directory holds one file per second in which a request
\* opened its file, not one per request.  Two requests that end on the
\* transient path with a successful write in different seconds, each alone
\* in its second, leave two files, each with the prompt of its request; two
\* that share a second, only they, leave one file, which begins with the
\* whole prompt of one of them.
C7_OneFilePerSecond ==
  /\ Cardinality(DOMAIN failed_prompts) = Cardinality(DOMAIN opens)
  /\ \A r1, r2 \in Threads :
       (r1 # r2 /\ Saved(r1) /\ Saved(r2)) =>
         /\ (utcnow[r1] # utcnow[r2] /\ Alone(utcnow[r1]) /\ Alone(utcnow[r2])) =>
              \E n1, n2 \in DOMAIN failed_prompts :
                /\ n1 # n2
                /\ failed_prompts[n1] = prompt[r1]
                /\ failed_prompts[n2] = prompt[r2]
         /\ (utcnow[r1] = utcnow[r2] /\ opens[utcnow[r1]] = 2) =>
              \E n \in DOMAIN failed_prompts :
                /\ n = "failed_prompt_" \o strftime(utcnow[r1]) \o ".txt"
                /\ \/ StartsWith(failed_prompts[n], prompt[r1])
                   \/ StartsWith(failed_prompts[n], prompt[r2])

C7_Witness ==
  \E r1, r2 \in Threads :
    /\ r1 # r2 /\ Saved(r1) /\ Saved(r2)
    /\ utcnow[r1] # utcnow[r2] /\ Alone(utcnow[r1]) /\ Alone(utcnow[r2])
    /\ prompt[r1] # prompt[r2]
    /\ Cardinality(DOMAIN failed_prompts) = 2

\* The fields of a body as the claim words them: the value given, or the
\* default of the field.
Given(b, field, default) ==
  LET json == loads(b).val
  IN IF json.t = "obj" /\ \E i \in 1..Len(json.items) : json.items[i].s = field
     THEN str((json.items[CHOOSE i \in 1..Len(json.items) :
                            json.items[i].s = field]).items[1])
     ELSE default

\* A body that is a JSON object, or an empty or missing one.
ObjectOrEmpty(b) == loads(b).val.t = "obj" \/ ~Truthy(loads(b).val)

IsFile(p) == p \in Entries /\ build[p] = "file"

\* C9 as stated: a non-empty path at which a file exists is served;
\* otherwise index.html is served if it exists; otherwise the answer is
\* 200 with the status payload.
C9_AsStated ==
  get # NoGet =>
    get.resp =
      IF get.path # "" /\ IsFile(get.path)
      THEN [status |-> 200, body |-> File(get.path)]
      ELSE IF IsFile("index.html")
      THEN [status |-> 200, body |-> File("index.html")]
      ELSE [status |-> 200,
            body |-> JObj(<< JPair("status",
                        JStr("Backend running. Frontend build not found.")) >>)]

\* C10: the failed-prompts directory never loses a file name; a request
\* opens at most one file of it; a GET of the static fallback leaves it
\* unchanged, and so does the step that ends a request with 200, a request
\* that opened no file.
C10_AppendOnly ==
  [][ /\ DOMAIN failed_prompts \subseteq DOMAIN failed_prompts'
      /\ \A r \in Threads : writes'[r] <= 1
      /\ (get' # get) => (failed_prompts' = failed_prompts)
      /\ \A r \in Threads :
           (pc[r] # "done" /\ pc'[r] = "done" /\ resp'[r].status = 200) =>
             /\ writes'[r] = 0
             /\ failed_prompts' = failed_prompts ]_vars

C10_Witness ==
  \E r \in Threads :
    /\ Done(r) /\ resp[r].status = 200 /\ writes[r] = 0
    /\ DOMAIN failed_prompts # {}
    /\ get # NoGet

====
